---- MODULE Spec2Model ----
(***************************************************************************)
(* youtube-unofficial: the continuation cursors of the YouTube client      *)
(* (get_history_info, get_playlist_info, live_chat_history,                *)
(* comment_history / community_history) and the operations built on them.  *)
(*                                                                         *)
(* A cursor is a Python generator.  Its position is pc:                    *)
(*   "idle"  no generator exists yet                                       *)
(*   "new"   the generator was created, none of its body has run           *)
(*   "page"  it holds a page; buf[idx..] are the entries still to yield    *)
(*   "done"  it returned (StopIteration)                                   *)
(*   "error" it raised err                                                 *)
(* control says who runs: the consumer, or the generator after a next().   *)
(* The server is the environment: every page load and every follow-up      *)
(* fetch is answered by any page of the bounded page sets, or fails.       *)
(***************************************************************************)
EXTENDS Integers, Sequences, FiniteSets, TLC

VARIABLES logged_in, caller, kind, only_first_page, pc, control, pages, buf,
          idx, contList, contIdx, xsrf, emitted, fetches, err, clear_button,
          posts, opState, opErr, loads, peer, active, call_arg, call_ret,
          favorites_playlist_id, video_id, opResult

vars == <<logged_in, caller, kind, only_first_page, pc, control, pages, buf,
          idx, contList, contIdx, xsrf, emitted, fetches, err, clear_button,
          posts, opState, opErr, loads, peer, active, call_arg, call_ret,
          favorites_playlist_id, video_id, opResult>>

cursorVars == <<kind, only_first_page, pc, control, pages, buf, idx, contList,
                contIdx, xsrf, emitted, fetches, err>>

opVars == <<clear_button, posts, opState, opErr>>

\* loads: the HTML pages loaded with _download_page_soup, in order.
\* peer, active: a second generator of the same client, parked while the
\* active one runs.  call_arg, call_ret: the argument and the result of a call of
\* find_ytcfg, ytcfg_headers or _authorization_sapisidhash_header.
\* favorites_playlist_id: self._favorites_playlist_id.  video_id, opResult:
\* the argument and the return value of remove_video_id_from_history.
extraVars == <<peer, active, call_arg, call_ret, favorites_playlist_id, video_id,
               opResult>>

\* Follow-up fetches one cursor may issue.
MaxFetches == 2

\* Follow-up fetches a cursor may issue that an operation of the client
\* consumes.
MaxCallFetches == 1

\* Follow-up fetches two interleaved cursors may issue together.
MaxPairFetches == 2

----------------------------------------------------------------------------
(* Data the server can put in a page.                                      *)

Kinds == {"history", "playlist", "live_chat", "comment"}

\* The cursors that take only_first_page.
FirstPageKinds == {"live_chat", "comment"}

\* The cursors that send session_token with a follow-up fetch.
TokenKinds == {"history", "live_chat", "comment"}

NoToken == "none"

\* ytcfg['XSRF_TOKEN'] of the initial page.
ConfigToken == "T0"

\* resp[1]['xsrf_token'] of a follow-up response, when it has one.
RotatedTokens == {"T1", "T2"}

\* A playlist row without setVideoId.
NoSetVideoId == "noid"

D1 == [continuation |-> "c1", itct |-> "i1"]

D2 == [continuation |-> "c2", itct |-> "i2"]

\* The values of a 'continuations' key: nextContinuationData records.
ContinuationLists == {<<>>, <<D1>>, <<D2>>, <<D1, D2>>}

\* The values of a 'contents' key.  A history page holds sections, each an
\* itemSectionRenderer with its own contents; the other pages hold entries.
ContentsOf(k) ==
    CASE k = "history" -> {<<>>, << <<"b">>, <<"a">> >>}
      [] k = "playlist" -> {<<>>, <<"b", "a">>, <<"a", NoSetVideoId>>}
      [] OTHER -> {<<>>, <<"b", "a">>}

\* A page whose renderer path is absent altogether.
BarePage(tok) ==
    [hasRenderer |-> FALSE, hasContents |-> FALSE, contents |-> <<>>,
     hasContinuations |-> FALSE, continuations |-> <<>>, xsrf_token |-> tok]

PagesWith(k, toks) ==
    {[hasRenderer |-> TRUE, hasContents |-> TRUE, contents |-> c,
      hasContinuations |-> TRUE, continuations |-> l, xsrf_token |-> t] :
        c \in ContentsOf(k), l \in ContinuationLists, t \in toks}
    \cup
    {[hasRenderer |-> TRUE, hasContents |-> TRUE, contents |-> c,
      hasContinuations |-> FALSE, continuations |-> <<>>, xsrf_token |-> t] :
        c \in ContentsOf(k), t \in toks}
    \cup
    {[hasRenderer |-> TRUE, hasContents |-> FALSE, contents |-> <<>>,
      hasContinuations |-> TRUE, continuations |-> l, xsrf_token |-> t] :
        l \in ContinuationLists, t \in toks}
    \cup
    {[hasRenderer |-> TRUE, hasContents |-> FALSE, contents |-> <<>>,
      hasContinuations |-> FALSE, continuations |-> <<>>, xsrf_token |-> t] :
        t \in toks}

\* The page state of the HTML page a cursor loads first.
InitialPages(k) == PagesWith(k, {ConfigToken}) \cup {BarePage(ConfigToken)}

\* The browse_ajax responses.
ResponsePages(k) ==
    PagesWith(k, {NoToken} \cup RotatedTokens) \cup {BarePage(NoToken)}

----------------------------------------------------------------------------
(* Helpers.                                                                *)

RECURSIVE Flatten(_)
\* for section_list in contents: yield from section_list[...]['contents']
Flatten(sections) ==
    IF sections = <<>> THEN <<>>
    ELSE Head(sections) \o Flatten(Tail(sections))

\* The entries a page holds, in the order its cursor yields them.
EntriesOf(k, page) ==
    IF ~page.hasContents THEN <<>>
    ELSE IF k = "history" THEN Flatten(page.contents)
    ELSE page.contents

RECURSIVE ConcatEntries(_, _)
ConcatEntries(k, ps) ==
    IF ps = <<>> THEN <<>>
    ELSE EntriesOf(k, Head(ps)) \o ConcatEntries(k, Tail(ps))

Last(s) == s[Len(s)]

Loaded(b) == [err |-> "none", buf |-> b]

Failed(e) == [err |-> e, buf |-> <<>>]

----------------------------------------------------------------------------
(* Reading a page: the entries to yield, or the exception raised.          *)

\* util.path (at_path) on '...sectionListRenderer.contents.0.
\* itemSectionRenderer': whether the path resolves.
at_path_item_section(page) == page.hasRenderer

\* get_history_info: the sectionListRenderer of the initial page.
history_initial(page) ==
    IF ~page.hasRenderer THEN Failed("KeyError")
    ELSE IF ~page.hasContents THEN Failed("KeyError")
    ELSE Loaded(Flatten(page.contents))

\* get_playlist_info: the playlistVideoListRenderer of the initial page;
\* a missing 'contents' is caught and read as no entries.
playlist_initial(page) ==
    IF ~page.hasRenderer THEN Failed("KeyError")
    ELSE IF ~page.hasContents THEN Loaded(<<>>)
    ELSE Loaded(page.contents)

\* live_chat_history, _comment_community_history: the itemSectionRenderer
\* of the initial page.
item_section_initial(page) ==
    IF ~at_path_item_section(page) THEN Failed("NotFound")
    ELSE IF ~page.hasContents THEN Failed("KeyError")
    ELSE Loaded(page.contents)

InitialLoad(k, page) ==
    CASE k = "history" -> history_initial(page)
      [] k = "playlist" -> playlist_initial(page)
      [] OTHER -> item_section_initial(page)

\* get_history_info: resp[1]['response']['continuationContents']
\* ['sectionListContinuation'] and its sections.
history_response(page) ==
    IF ~page.hasRenderer THEN Failed("KeyError")
    ELSE IF ~page.hasContents THEN Failed("KeyError")
    ELSE Loaded(Flatten(page.contents))

\* get_playlist_info: ['playlistVideoListContinuation']['contents'].
playlist_response(page) ==
    IF ~page.hasRenderer THEN Failed("KeyError")
    ELSE IF ~page.hasContents THEN Failed("KeyError")
    ELSE Loaded(page.contents)

\* live_chat_history, _comment_community_history:
\* ['itemSectionContinuation']['contents'].
item_section_response(page) ==
    IF ~page.hasRenderer THEN Failed("KeyError")
    ELSE IF ~page.hasContents THEN Failed("KeyError")
    ELSE Loaded(page.contents)

ResponseLoad(k, page) ==
    CASE k = "history" -> history_response(page)
      [] k = "playlist" -> playlist_response(page)
      [] OTHER -> item_section_response(page)

----------------------------------------------------------------------------
(* What a cursor does once every entry of its page has been yielded.       *)

NoDescriptor == [continuation |-> "none", itct |-> "none"]

Return ==
    [act |-> "return", err |-> "none", desc |-> NoDescriptor,
     token |-> NoToken, list |-> <<>>, next |-> 1]

RaiseOf(e) ==
    [act |-> "raise", err |-> e, desc |-> NoDescriptor,
     token |-> NoToken, list |-> <<>>, next |-> 1]

FetchOf(d, tok, l, n) ==
    [act |-> "fetch", err |-> "none", desc |-> d,
     token |-> tok, list |-> l, next |-> n]

\* get_history_info.  After the initial page: a missing 'continuations'
\* returns, and the first fetch carries ytcfg['XSRF_TOKEN'].  After a
\* response: a missing 'continuations' breaks, else xsrf is taken from
\* resp[1]['xsrf_token'] and the first descriptor is fetched.
history_next(page, onInitial, cfgTok) ==
    IF ~page.hasContinuations THEN Return
    ELSE IF ~onInitial /\ page.xsrf_token = NoToken THEN RaiseOf("KeyError")
    ELSE IF page.continuations = <<>> THEN RaiseOf("IndexError")
    ELSE FetchOf(page.continuations[1],
                 IF onInitial THEN cfgTok ELSE page.xsrf_token, <<>>, 1)

\* get_playlist_info.  No session_token is sent.
playlist_next(page, onInitial) ==
    IF ~page.hasContinuations THEN Return
    ELSE IF page.continuations = <<>> THEN RaiseOf("IndexError")
    ELSE FetchOf(page.continuations[1], NoToken, <<>>, 1)

\* item_section_next without the only_first_page test of the first return.
item_section_next_all_pages(page, onInitial, ofp, l, i, cfgTok) ==
    IF onInitial
    THEN IF ~page.hasContinuations \/ page.continuations = <<>>
         THEN Return
         ELSE FetchOf(page.continuations[1], cfgTok, page.continuations, 2)
    ELSE IF i <= Len(l)
         THEN FetchOf(l[i], cfgTok, l, i + 1)
         ELSE IF page.hasContinuations /\ page.continuations # <<>>
              THEN FetchOf(page.continuations[1], cfgTok,
                           page.continuations, 2)
              ELSE Return

\* live_chat_history, _comment_community_history.  l is the list the for
\* loop iterates and i the index of its next descriptor; page is the
\* latest item_section.  Every fetch carries ytcfg['XSRF_TOKEN'].
item_section_next(page, onInitial, ofp, l, i, cfgTok) ==
    IF onInitial
    THEN IF ofp \/ ~page.hasContinuations \/ page.continuations = <<>>
         THEN Return
         ELSE FetchOf(page.continuations[1], cfgTok, page.continuations, 2)
    ELSE IF i <= Len(l)
         THEN FetchOf(l[i], cfgTok, l, i + 1)
         ELSE IF page.hasContinuations /\ page.continuations # <<>>
              THEN FetchOf(page.continuations[1], cfgTok,
                           page.continuations, 2)
              ELSE Return

NextStep(k, page, onInitial, ofp, l, i, cfgTok) ==
    CASE k = "history" -> history_next(page, onInitial, cfgTok)
      [] k = "playlist" -> playlist_next(page, onInitial)
      [] OTHER -> item_section_next(page, onInitial, ofp, l, i, cfgTok)

\* Request that takes ctoken and continuation from the descriptor and keeps
\* the first itct seen by the client's class: the tracking parameter is not
\* refreshed with the descriptor.
Request_stale_itct(d, tok, answered) ==
    [ctoken |-> d.continuation, continuation |-> d.continuation,
     itct |-> D1.itct, session_token |-> tok, ok |-> answered]

\* The params and data of one browse_ajax request; ok records whether the
\* transport answered it.
Request(d, tok, answered) ==
    [ctoken |-> d.continuation, continuation |-> d.continuation,
     itct |-> d.itct, session_token |-> tok, ok |-> answered]

\* PageExhausted that gives up the page while its last entry is pending:
\* the next page is fetched one entry ahead.
PageExhausted_one_ahead(i, b) == i >= Len(b)

\* yield from: the page has entries left while idx is within buf.
PageExhausted(i, b) == i > Len(b)

\* OnFetchError that swallows the error and stays on the page, so that the
\* fetch is issued again.
OnFetchError_retry == [pc |-> "page", err |-> "none", control |-> "generator"]

\* _download_page raising: nothing in the generators catches it.
OnFetchError == [pc |-> "error", err |-> "FetchError", control |-> "consumer"]

----------------------------------------------------------------------------
(* The state machine.                                                      *)

\* The outcomes of a call of find_ytcfg: none yet, a dict, another JSON
\* value, or an exception.
NoResult == [kind |-> "none", blob |-> "none"]

Blob(o) == [kind |-> "blob", blob |-> o]

StringValue == [kind |-> "string", blob |-> "none"]

Raised(e) == [kind |-> e, blob |-> "none"]

\* No second generator.
NoCursor ==
    [caller |-> "none", kind |-> "none", only_first_page |-> FALSE,
     pc |-> "idle", control |-> "consumer", pages |-> <<>>, buf |-> <<>>,
     idx |-> 1, contList |-> <<>>, contIdx |-> 1, xsrf |-> NoToken,
     emitted |-> <<>>, fetches |-> <<>>, err |-> "none"]

Init ==
    /\ logged_in \in BOOLEAN
    /\ caller = "none"
    /\ kind = "none"
    /\ only_first_page = FALSE
    /\ pc = "idle"
    /\ control = "consumer"
    /\ pages = <<>>
    /\ buf = <<>>
    /\ idx = 1
    /\ contList = <<>>
    /\ contIdx = 1
    /\ xsrf = NoToken
    /\ emitted = <<>>
    /\ fetches = <<>>
    /\ err = "none"
    /\ clear_button = "unread"
    /\ posts = <<>>
    /\ opState = "idle"
    /\ opErr = "none"
    /\ loads = <<>>
    /\ peer = NoCursor
    /\ active = 1
    /\ call_arg = <<>>
    /\ call_ret = NoResult
    /\ favorites_playlist_id = "None"
    /\ video_id = "none"
    /\ opResult = "none"

\* The caller calls a generator function: the generator object is created
\* and no line of its body runs.
CallCursor(k, ofp) ==
    /\ caller = "none"
    /\ ofp => k \in FirstPageKinds
    /\ caller' = "user"
    /\ kind' = k
    /\ only_first_page' = ofp
    /\ pc' = "new"
    /\ UNCHANGED <<logged_in, control, pages, buf, idx, contList, contIdx,
                   xsrf, emitted, fetches, err>>
    /\ UNCHANGED opVars
    /\ UNCHANGED loads
    /\ UNCHANGED extraVars

\* The consumer asks for the next item.
Pull ==
    /\ caller = "user"
    /\ control = "consumer"
    /\ pc \in {"new", "page"}
    /\ control' = "generator"
    /\ UNCHANGED <<logged_in, caller, kind, only_first_page, pc, pages, buf,
                   idx, contList, contIdx, xsrf, emitted, fetches, err>>
    /\ UNCHANGED opVars
    /\ UNCHANGED loads
    /\ UNCHANGED extraVars

\* The generator stops with exception e.
Stopped(e) ==
    /\ pc' = "error"
    /\ err' = e
    /\ control' = "consumer"

\* The head of a generator body: the login check, the page load and the
\* lookup of the entries of the initial page.
Start ==
    /\ control = "generator"
    /\ pc = "new"
    /\ loads' = IF logged_in THEN Append(loads, kind) ELSE loads
    /\ IF ~logged_in
       THEN /\ Stopped("AuthenticationError")
            /\ UNCHANGED <<pages, buf, idx>>
       ELSE \/ /\ Stopped("FetchError")
               /\ UNCHANGED <<pages, buf, idx>>
            \/ \E page \in InitialPages(kind) :
                 LET r == InitialLoad(kind, page) IN
                 /\ pages' = <<page>>
                 /\ IF r.err = "none"
                    THEN /\ pc' = "page"
                         /\ buf' = r.buf
                         /\ idx' = 1
                         /\ UNCHANGED <<err, control>>
                    ELSE /\ Stopped(r.err)
                         /\ UNCHANGED <<buf, idx>>
    /\ UNCHANGED <<logged_in, caller, kind, only_first_page, contList,
                   contIdx, xsrf, emitted, fetches>>
    /\ UNCHANGED opVars
    /\ UNCHANGED extraVars

\* yield: one entry of the current page goes to the consumer.
Yield ==
    /\ control = "generator"
    /\ pc = "page"
    /\ ~PageExhausted(idx, buf)
    /\ emitted' = Append(emitted, buf[idx])
    /\ idx' = idx + 1
    /\ control' = "consumer"
    /\ UNCHANGED <<logged_in, caller, kind, only_first_page, pc, pages, buf,
                   contList, contIdx, xsrf, fetches, err>>
    /\ UNCHANGED opVars
    /\ UNCHANGED loads
    /\ UNCHANGED extraVars

\* Step that reads the latest page from a slot all generators of the
\* client share: it is the page the other generator received last.
Step_shared_page ==
    NextStep(kind, IF peer.pages # <<>> THEN Last(peer.pages) ELSE Last(pages),
             fetches = <<>>, only_first_page, contList, contIdx,
             pages[1].xsrf_token)

\* The decision at the end of a page, from the generator's own locals.
Step ==
    NextStep(kind, Last(pages), fetches = <<>>, only_first_page, contList,
             contIdx, pages[1].xsrf_token)

AtPageEnd ==
    /\ control = "generator"
    /\ pc = "page"
    /\ PageExhausted(idx, buf)

\* return / break: the generator ends normally.
Finish ==
    /\ AtPageEnd
    /\ Step.act = "return"
    /\ pc' = "done"
    /\ control' = "consumer"
    /\ UNCHANGED <<logged_in, caller, kind, only_first_page, pages, buf, idx,
                   contList, contIdx, xsrf, emitted, fetches, err>>
    /\ UNCHANGED opVars
    /\ UNCHANGED loads
    /\ UNCHANGED extraVars

\* The lookup of the next descriptor or token raises.
Raise ==
    /\ AtPageEnd
    /\ Step.act = "raise"
    /\ Stopped(Step.err)
    /\ UNCHANGED <<logged_in, caller, kind, only_first_page, pages, buf, idx,
                   contList, contIdx, xsrf, emitted, fetches>>
    /\ UNCHANGED opVars
    /\ UNCHANGED loads
    /\ UNCHANGED extraVars

\* One follow-up fetch and the reading of its response.
Fetch ==
    /\ AtPageEnd
    /\ Step.act = "fetch"
    /\ Len(fetches) < (IF caller = "user" THEN MaxFetches ELSE MaxCallFetches)
    /\ xsrf' = Step.token
    /\ contList' = Step.list
    /\ contIdx' = Step.next
    /\ \/ /\ fetches' = Append(fetches, Request(Step.desc, Step.token, FALSE))
          /\ pc' = OnFetchError.pc
          /\ err' = OnFetchError.err
          /\ control' = OnFetchError.control
          /\ UNCHANGED <<pages, buf, idx>>
       \/ \E resp \in ResponsePages(kind) :
            LET r == ResponseLoad(kind, resp) IN
            /\ fetches' = Append(fetches, Request(Step.desc, Step.token, TRUE))
            /\ pages' = Append(pages, resp)
            /\ IF r.err = "none"
               THEN /\ buf' = r.buf
                    /\ idx' = 1
                    /\ UNCHANGED <<pc, err, control>>
               ELSE /\ Stopped(r.err)
                    /\ UNCHANGED <<buf, idx>>
    /\ UNCHANGED <<logged_in, caller, kind, only_first_page, emitted>>
    /\ UNCHANGED opVars
    /\ UNCHANGED loads
    /\ UNCHANGED extraVars

----------------------------------------------------------------------------
(* Operations that change the account.                                     *)

\* What the history page holds at ['contents'][2]['buttonRenderer']...
\* ['serviceEndpoint']: the endpoint, a missing key, or a contents list
\* with fewer than three items.
ClearButtons == {"present", "missing_key", "short_list"}

Post(endpoint, arg) == [name |-> endpoint, arg |-> arg]

\* clear_watch_history_lookup without the except KeyError clause.
clear_watch_history_lookup_uncaught(button) ==
    CASE button = "present" -> [state |-> "post", err |-> "none"]
      [] button = "missing_key" -> [state |-> "raised", err |-> "KeyError"]
      [] OTHER -> [state |-> "raised", err |-> "IndexError"]

\* clear_watch_history, after the history page was loaded: what the lookup
\* of the clear button leads to.  KeyError is caught and the method returns.
clear_watch_history_lookup(button) ==
    CASE button = "present" -> [state |-> "post", err |-> "none"]
      [] button = "missing_key" -> [state |-> "returned", err |-> "none"]
      [] OTHER -> [state |-> "raised", err |-> "IndexError"]

\* clear_watch_history, the whole method.
ClearWatchHistory ==
    /\ caller = "none"
    /\ caller' = "clear_watch_history"
    /\ loads' = IF logged_in THEN Append(loads, "history") ELSE loads
    /\ IF ~logged_in
       THEN /\ opState' = "raised"
            /\ opErr' = "AuthenticationError"
            /\ UNCHANGED <<clear_button, posts>>
       ELSE \/ /\ opState' = "raised"
               /\ opErr' = "FetchError"
               /\ UNCHANGED <<clear_button, posts>>
            \/ \E button \in ClearButtons :
                 LET r == clear_watch_history_lookup(button) IN
                 /\ clear_button' = button
                 /\ IF r.state = "post"
                    THEN /\ posts' = Append(posts,
                                            Post("feedbackEndpoint", "clear"))
                         /\ \/ /\ opState' = "returned"
                               /\ opErr' = "none"
                            \/ /\ opState' = "raised"
                               /\ opErr' = "FetchError"
                    ELSE /\ opState' = r.state
                         /\ opErr' = r.err
                         /\ UNCHANGED posts
    /\ UNCHANGED logged_in
    /\ UNCHANGED cursorVars
    /\ UNCHANGED extraVars

\* clear_playlist up to the enumeration: the login check, the creation of
\* the get_playlist_info generator and the load of the playlist page.
ClearPlaylistCall ==
    /\ caller = "none"
    /\ caller' = "clear_playlist"
    /\ loads' = IF logged_in THEN Append(loads, "playlist") ELSE loads
    /\ IF ~logged_in
       THEN /\ opState' = "raised"
            /\ opErr' = "AuthenticationError"
            /\ UNCHANGED <<kind, pc>>
       ELSE /\ kind' = "playlist"
            /\ pc' = "new"
            /\ \/ /\ opState' = "raised"
                  /\ opErr' = "FetchError"
               \/ /\ opState' = "enumerating"
                  /\ opErr' = "none"
    /\ UNCHANGED <<logged_in, only_first_page, control, pages, buf, idx,
                   contList, contIdx, xsrf, emitted, fetches, err,
                   clear_button, posts>>
    /\ UNCHANGED extraVars

\* clear_playlist: list(map(lambda x: x[...]['setVideoId'], playlist_info))
\* inside try / except KeyError, one step of it.  The lambda is applied to
\* the entry just yielded; a KeyError from it or from the generator is
\* caught and the method returns.
clear_playlist_next(cursor_pc, cursor_err, em) ==
    CASE cursor_pc = "new" -> [state |-> "pull", err |-> "none"]
      [] cursor_pc = "page" ->
            IF Last(em) = NoSetVideoId
            THEN [state |-> "returned", err |-> "none"]
            ELSE [state |-> "pull", err |-> "none"]
      [] cursor_pc = "done" ->
            IF em = <<>>
            THEN [state |-> "returned", err |-> "none"]
            ELSE [state |-> "removing", err |-> "none"]
      [] OTHER ->
            IF cursor_err = "KeyError"
            THEN [state |-> "returned", err |-> "none"]
            ELSE [state |-> "raised", err |-> cursor_err]

ClearPlaylistNext ==
    /\ caller = "clear_playlist"
    /\ opState = "enumerating"
    /\ control = "consumer"
    /\ LET r == clear_playlist_next(pc, err, emitted) IN
       IF r.state = "pull"
       THEN /\ control' = "generator"
            /\ UNCHANGED <<opState, opErr>>
       ELSE /\ opState' = r.state
            /\ opErr' = r.err
            /\ UNCHANGED control
    /\ UNCHANGED <<logged_in, caller, kind, only_first_page, pc, pages, buf,
                   idx, contList, contIdx, xsrf, emitted, fetches, err,
                   clear_button, posts>>
    /\ UNCHANGED loads
    /\ UNCHANGED extraVars

\* clear_playlist: one remove_set_video_id_from_playlist call of the final
\* loop, given csn, headers and xsrf_token.  A code other than SUCCESS
\* raises UnexpectedError.
ClearPlaylistRemove ==
    /\ caller = "clear_playlist"
    /\ opState = "removing"
    /\ Len(posts) < Len(emitted)
    /\ posts' = Append(posts, Post("playlistEditEndpoint",
                                   emitted[Len(posts) + 1]))
    /\ \/ /\ opState' = "raised"
          /\ opErr' = "FetchError"
       \/ /\ opState' = "raised"
          /\ opErr' = "UnexpectedError"
       \/ /\ opState' = IF Len(posts') = Len(emitted) THEN "returned"
                        ELSE "removing"
          /\ opErr' = "none"
    /\ UNCHANGED <<logged_in, caller, clear_button>>
    /\ UNCHANGED cursorVars
    /\ UNCHANGED loads
    /\ UNCHANGED extraVars

----------------------------------------------------------------------------
(* Operations of one request: the login check, the page that holds the     *)
(* config when the caller gave none, and one POST.                         *)

SimpleOps ==
    {"remove_set_video_id_from_playlist", "toggle_search_history",
     "toggle_watch_history", "delete_live_chat_message", "delete_comment",
     "update_comment", "delete_community_entry", "clear_search_history"}

\* The operations that load no page when the caller passes the config
\* (ytcfg; headers, csn and xsrf_token for the playlist removal).
ConfigOptional ==
    {"remove_set_video_id_from_playlist", "delete_live_chat_message",
     "delete_comment", "update_comment", "delete_community_entry"}

\* The page _download_page_soup is called on.
PageOf(op) ==
    CASE op = "remove_set_video_id_from_playlist" -> "watch_later"
      [] op = "toggle_search_history" -> "search_history"
      [] op = "toggle_watch_history" -> "watch_history"
      [] op = "delete_live_chat_message" -> "live_chat"
      [] op = "clear_search_history" -> "search_history"
      [] OTHER -> "comment"

\* The endpoint of the POST.
EndpointOf(op) ==
    CASE op = "remove_set_video_id_from_playlist" -> "playlistEditEndpoint"
      [] op = "delete_live_chat_message" ->
            "/youtubei/v1/live_chat/delete_message"
      [] op = "delete_comment" -> "/youtubei/v1/comment/perform_comment_action"
      [] op = "delete_community_entry" ->
            "/youtubei/v1/comment/perform_comment_action"
      [] op = "update_comment" -> "/youtubei/v1/comment/update_comment"
      [] OTHER -> "/youtubei/v1/feedback"

\* What the server and the page make of the call: the page load fails, the
\* page lacks the config or the path read, the POST fails, the POST is
\* answered with a refusal, or with success.
Outcomes == {"load_failed", "lookup_failed", "post_failed", "refused", "done"}

OpResult(state, e, result, pageLoads, requests) ==
    [state |-> state, err |-> e, result |-> result, loads |-> pageLoads,
     posts |-> requests]

\* operation that loads its page before it tests _logged_in.
operation_load_before_check(op, li, given, outcome) ==
    IF ~li
    THEN OpResult("raised", "AuthenticationError", "none", <<PageOf(op)>>,
                  <<>>)
    ELSE OpResult("returned", "none", "True", <<PageOf(op)>>,
                  <<Post(EndpointOf(op), op)>>)

\* One of the SimpleOps, the whole method.  given: the caller passed the
\* config.
operation(op, li, given, outcome) ==
    LET pageLoads == IF given /\ op \in ConfigOptional THEN <<>>
                     ELSE <<PageOf(op)>>
        request == <<Post(EndpointOf(op), op)>>
    IN
    IF ~li THEN OpResult("raised", "AuthenticationError", "none", <<>>, <<>>)
    ELSE IF outcome = "load_failed" /\ pageLoads # <<>>
    THEN OpResult("raised", "FetchError", "none", pageLoads, <<>>)
    ELSE IF outcome = "lookup_failed" /\ pageLoads # <<>>
    THEN OpResult("raised", "KeyError", "none", pageLoads, <<>>)
    ELSE IF outcome = "post_failed"
    THEN OpResult("raised", "FetchError", "none", pageLoads, request)
    ELSE IF outcome = "refused"
    THEN IF op = "remove_set_video_id_from_playlist"
         THEN OpResult("raised", "UnexpectedError", "none", pageLoads,
                       request)
         ELSE OpResult("returned", "none", "False", pageLoads, request)
    ELSE OpResult("returned", "none", "True", pageLoads, request)

Operation(op, given, outcome) ==
    /\ caller = "none"
    /\ caller' = op
    /\ LET r == operation(op, logged_in, given, outcome) IN
       /\ opState' = r.state
       /\ opErr' = r.err
       /\ opResult' = r.result
       /\ loads' = loads \o r.loads
       /\ posts' = posts \o r.posts
    /\ UNCHANGED <<logged_in, clear_button, peer, active, call_arg, call_ret,
                   favorites_playlist_id, video_id>>
    /\ UNCHANGED cursorVars

----------------------------------------------------------------------------
(* get_favorites_playlist_id and the operations that call it.              *)

PlaylistIds == {"FL1", "FL2"}

NoId == "None"

\* The guide data of the home page: whether the path to sectionItems
\* resolves, the id of the LIKES_PLAYLIST entry among the section items,
\* whether the last section item holds expandableItems, and the id of the
\* LIKES_PLAYLIST entry among those.
GuidePagesWith(ids) ==
    [hasSectionItems : BOOLEAN, inSection : ids \cup {NoId},
     hasExpandable : BOOLEAN, inExpandable : ids \cup {NoId}]

GuidePages == GuidePagesWith(PlaylistIds)

\* The guide pages for the operations that pass the id on to
\* get_playlist_info: which id it is makes no difference to them.
GuidePagesOneId == GuidePagesWith({"FL1"})

FavResult(state, e, id, cache, loaded) ==
    [state |-> state, err |-> e, id |-> id, cache |-> cache,
     loaded |-> loaded]

\* get_favorites_playlist_id that does not look at the cached id.
get_favorites_playlist_id_uncached(li, cache, page, answered) ==
    IF ~li THEN FavResult("raised", "AuthenticationError", NoId, cache, FALSE)
    ELSE IF ~answered THEN FavResult("raised", "FetchError", NoId, cache, TRUE)
    ELSE IF ~page.hasSectionItems
    THEN FavResult("raised", "KeyError", NoId, cache, TRUE)
    ELSE IF page.inSection # NoId
    THEN FavResult("returned", "none", page.inSection, page.inSection, TRUE)
    ELSE IF ~page.hasExpandable
    THEN FavResult("raised", "KeyError", NoId, cache, TRUE)
    ELSE IF page.inExpandable = NoId
    THEN FavResult("raised", "ValueError", NoId, cache, TRUE)
    ELSE FavResult("returned", "none", page.inExpandable, page.inExpandable,
                   TRUE)

\* get_favorites_playlist_id: the outcome, the id returned, the value of
\* self._favorites_playlist_id afterwards and whether the home page was
\* loaded.
get_favorites_playlist_id(li, cache, page, answered) ==
    IF ~li THEN FavResult("raised", "AuthenticationError", NoId, cache, FALSE)
    ELSE IF cache # NoId THEN FavResult("returned", "none", cache, cache, FALSE)
    ELSE IF ~answered THEN FavResult("raised", "FetchError", NoId, cache, TRUE)
    ELSE IF ~page.hasSectionItems
    THEN FavResult("raised", "KeyError", NoId, cache, TRUE)
    ELSE IF page.inSection # NoId
    THEN FavResult("returned", "none", page.inSection, page.inSection, TRUE)
    ELSE IF ~page.hasExpandable
    THEN FavResult("raised", "KeyError", NoId, cache, TRUE)
    ELSE IF page.inExpandable = NoId
    THEN FavResult("raised", "ValueError", NoId, cache, TRUE)
    ELSE FavResult("returned", "none", page.inExpandable, page.inExpandable,
                   TRUE)

HomeLoad(r) == IF r.loaded THEN <<"home">> ELSE <<>>

GetFavoritesPlaylistId(page, answered) ==
    /\ caller = "none"
    /\ caller' = "get_favorites_playlist_id"
    /\ LET r == get_favorites_playlist_id(logged_in, favorites_playlist_id,
                                          page, answered) IN
       /\ opState' = r.state
       /\ opErr' = r.err
       /\ opResult' = r.id
       /\ favorites_playlist_id' = r.cache
       /\ loads' = loads \o HomeLoad(r)
    /\ UNCHANGED <<logged_in, clear_button, posts, peer, active, call_arg,
                   call_ret, video_id>>
    /\ UNCHANGED cursorVars

\* clear_favorites: the login check, get_favorites_playlist_id, and the
\* head of clear_playlist, which then runs as clear_playlist does.
ClearFavorites(page, answered) ==
    /\ caller = "none"
    /\ LET r == get_favorites_playlist_id(logged_in, favorites_playlist_id,
                                          page, answered) IN
       /\ favorites_playlist_id' = r.cache
       /\ IF r.state = "raised"
          THEN /\ caller' = "clear_favorites"
               /\ opState' = "raised"
               /\ opErr' = r.err
               /\ loads' = loads \o HomeLoad(r)
               /\ UNCHANGED <<kind, pc>>
          ELSE /\ caller' = "clear_playlist"
               /\ kind' = "playlist"
               /\ pc' = "new"
               /\ loads' = loads \o HomeLoad(r) \o <<"playlist">>
               /\ \/ /\ opState' = "raised"
                     /\ opErr' = "FetchError"
                  \/ /\ opState' = "enumerating"
                     /\ opErr' = "none"
    /\ UNCHANGED <<logged_in, only_first_page, control, pages, buf, idx,
                   contList, contIdx, xsrf, emitted, fetches, err,
                   clear_button, posts>>
    /\ UNCHANGED <<peer, active, call_arg, call_ret, video_id, opResult>>

\* The video id a caller asks to remove from the favourites: some playlist
\* pages hold it and some do not.
FavoriteVideoIds == {"b"}

\* remove_video_id_from_favorites up to the filter: get_favorites_playlist_id
\* (which holds the login check), the creation of the get_playlist_info
\* generator and the load of the playlist page.
RemoveVideoIdFromFavoritesCall(vid, page, answered) ==
    /\ caller = "none"
    /\ caller' = "remove_video_id_from_favorites"
    /\ video_id' = vid
    /\ LET r == get_favorites_playlist_id(logged_in, favorites_playlist_id,
                                          page, answered) IN
       /\ favorites_playlist_id' = r.cache
       /\ IF r.state = "raised"
          THEN /\ opState' = "raised"
               /\ opErr' = r.err
               /\ loads' = loads \o HomeLoad(r)
               /\ UNCHANGED <<kind, pc>>
          ELSE /\ kind' = "playlist"
               /\ pc' = "new"
               /\ loads' = loads \o HomeLoad(r) \o <<"playlist">>
               /\ \/ /\ opState' = "raised"
                     /\ opErr' = "FetchError"
                  \/ /\ opState' = "filtering"
                     /\ opErr' = "none"
    /\ UNCHANGED <<logged_in, only_first_page, control, pages, buf, idx,
                   contList, contIdx, xsrf, emitted, fetches, err,
                   clear_button, posts>>
    /\ UNCHANGED <<peer, active, call_arg, call_ret, opResult>>

\* The first entry of em with video id vid.
FirstMatch(em, vid) ==
    CHOOSE i \in 1..Len(em) :
        /\ em[i] = vid
        /\ \A j \in 1..(i - 1) : em[j] # vid

\* remove_video_id_from_favorites: list(filter(..., playlist_info))[0]
\* inside try / except IndexError, one step of it, and the lookup of
\* setVideoId.  The filter consumes the whole generator; IndexError, from
\* [0] or from the generator, is caught and the method returns.
favorites_filter_next(cursor_pc, cursor_err, em, vid) ==
    CASE cursor_pc \in {"new", "page"} -> [state |-> "pull", err |-> "none"]
      [] cursor_pc = "done" ->
            IF \A i \in 1..Len(em) : em[i] # vid
            THEN [state |-> "returned", err |-> "none"]
            ELSE [state |-> "removing", err |-> "none"]
      [] OTHER ->
            IF cursor_err = "IndexError"
            THEN [state |-> "returned", err |-> "none"]
            ELSE [state |-> "raised", err |-> cursor_err]

FavoritesFilterNext ==
    /\ caller = "remove_video_id_from_favorites"
    /\ opState = "filtering"
    /\ control = "consumer"
    /\ LET r == favorites_filter_next(pc, err, emitted, video_id) IN
       IF r.state = "pull"
       THEN /\ control' = "generator"
            /\ UNCHANGED <<opState, opErr>>
       ELSE /\ opState' = r.state
            /\ opErr' = r.err
            /\ UNCHANGED control
    /\ UNCHANGED <<logged_in, caller, kind, only_first_page, pc, pages, buf,
                   idx, contList, contIdx, xsrf, emitted, fetches, err,
                   clear_button, posts>>
    /\ UNCHANGED loads
    /\ UNCHANGED extraVars

\* remove_video_id_from_favorites: the remove_set_video_id_from_playlist
\* call, given csn, headers and xsrf_token.
FavoritesRemove ==
    /\ caller = "remove_video_id_from_favorites"
    /\ opState = "removing"
    /\ posts' = Append(posts, Post("playlistEditEndpoint",
                                   emitted[FirstMatch(emitted, video_id)]))
    /\ \/ /\ opState' = "raised"
          /\ opErr' = "FetchError"
       \/ /\ opState' = "raised"
          /\ opErr' = "UnexpectedError"
       \/ /\ opState' = "returned"
          /\ opErr' = "none"
    /\ UNCHANGED <<logged_in, caller, clear_button>>
    /\ UNCHANGED cursorVars
    /\ UNCHANGED loads
    /\ UNCHANGED extraVars

----------------------------------------------------------------------------
(* remove_video_id_from_history.                                           *)

\* The video ids a caller asks to remove from the history: one that
\* entries carry, one that no entry carries.
HistoryVideoIds == {"a", "z"}

\* util.first(iterable), which raises IndexError when there is no item:
\* either it stops at the first item, or it builds the list of all items
\* and takes item 0.
FirstModes == {"first_lazy", "first_eager"}

\* Whether first asks the generator expression for nothing more once entry
\* was yielded to it.
first_stops(mode, entry, vid) == mode = "first_lazy" /\ entry = vid

\* remove_video_id_from_history up to the search: the login check, the
\* creation of the get_history_info generator and the load of the history
\* page.
RemoveVideoIdFromHistoryCall(vid, mode) ==
    /\ caller = "none"
    /\ caller' = "remove_video_id_from_history"
    /\ video_id' = vid
    /\ IF ~logged_in
       THEN /\ opState' = "raised"
            /\ opErr' = "AuthenticationError"
            /\ UNCHANGED <<kind, pc, loads>>
       ELSE /\ kind' = "history"
            /\ pc' = "new"
            /\ loads' = Append(loads, "history")
            /\ \/ /\ opState' = "raised"
                  /\ opErr' = "FetchError"
               \/ /\ opState' = mode
                  /\ opErr' = "none"
    /\ UNCHANGED <<logged_in, only_first_page, control, pages, buf, idx,
                   contList, contIdx, xsrf, emitted, fetches, err,
                   clear_button, posts>>
    /\ UNCHANGED <<peer, active, call_arg, call_ret, favorites_playlist_id,
                   opResult>>

\* first(x for x in history_info if x[...]['videoId'] == video_id) inside
\* try / except IndexError, one step of it.  IndexError, from first or from
\* the generator, is caught and the method returns False.
history_first_next(mode, cursor_pc, cursor_err, em, vid) ==
    CASE cursor_pc = "new" -> [state |-> "pull", err |-> "none"]
      [] cursor_pc = "page" ->
            IF first_stops(mode, Last(em), vid)
            THEN [state |-> "deleting", err |-> "none"]
            ELSE [state |-> "pull", err |-> "none"]
      [] cursor_pc = "done" ->
            IF \A i \in 1..Len(em) : em[i] # vid
            THEN [state |-> "returned", err |-> "none"]
            ELSE [state |-> "deleting", err |-> "none"]
      [] OTHER ->
            IF cursor_err = "IndexError"
            THEN [state |-> "returned", err |-> "none"]
            ELSE [state |-> "raised", err |-> cursor_err]

HistoryFirstNext ==
    /\ caller = "remove_video_id_from_history"
    /\ opState \in FirstModes
    /\ control = "consumer"
    /\ LET r == history_first_next(opState, pc, err, emitted, video_id) IN
       IF r.state = "pull"
       THEN /\ control' = "generator"
            /\ UNCHANGED <<opState, opErr, opResult>>
       ELSE /\ opState' = r.state
            /\ opErr' = r.err
            /\ opResult' = IF r.state = "returned" THEN "False" ELSE opResult
            /\ UNCHANGED control
    /\ UNCHANGED <<logged_in, caller, kind, only_first_page, pc, pages, buf,
                   idx, contList, contIdx, xsrf, emitted, fetches, err,
                   clear_button, posts>>
    /\ UNCHANGED loads
    /\ UNCHANGED <<peer, active, call_arg, call_ret, favorites_playlist_id,
                   video_id>>

\* resp['code'] of the feedbackEndpoint POST.
ResponseCodes == {"SUCCESS", "ERROR"}

Response(code) == [kind |-> "response", blob |-> code]

\* return resp['code'] == 'SUCCESS'
history_delete_result(code) == IF code = "SUCCESS" THEN "True" ELSE "False"

\* remove_video_id_from_history: the POST built from the entry found, and
\* the value returned.
HistoryDelete ==
    /\ caller = "remove_video_id_from_history"
    /\ opState = "deleting"
    /\ posts' = Append(posts, Post("feedbackEndpoint",
                                   emitted[FirstMatch(emitted, video_id)]))
    /\ \/ /\ opState' = "raised"
          /\ opErr' = "FetchError"
          /\ UNCHANGED <<call_ret, opResult>>
       \/ \E code \in ResponseCodes :
            /\ call_ret' = Response(code)
            /\ opState' = "returned"
            /\ opErr' = "none"
            /\ opResult' = history_delete_result(code)
    /\ UNCHANGED <<logged_in, caller, clear_button>>
    /\ UNCHANGED cursorVars
    /\ UNCHANGED loads
    /\ UNCHANGED <<peer, active, call_arg, favorites_playlist_id, video_id>>

Next ==
    \/ \E k \in Kinds, ofp \in BOOLEAN : CallCursor(k, ofp)
    \/ Pull
    \/ Start
    \/ Yield
    \/ Finish
    \/ Raise
    \/ Fetch
    \/ ClearWatchHistory
    \/ ClearPlaylistCall
    \/ ClearPlaylistNext
    \/ ClearPlaylistRemove
    \/ \E op \in SimpleOps, given \in BOOLEAN, outcome \in Outcomes :
          Operation(op, given, outcome)
    \/ \E page \in GuidePages, answered \in BOOLEAN :
          GetFavoritesPlaylistId(page, answered)
    \/ \E page \in GuidePagesOneId, answered \in BOOLEAN :
          ClearFavorites(page, answered)
    \/ \E vid \in FavoriteVideoIds, page \in GuidePagesOneId,
          answered \in BOOLEAN :
          RemoveVideoIdFromFavoritesCall(vid, page, answered)
    \/ FavoritesFilterNext
    \/ FavoritesRemove
    \/ \E vid \in HistoryVideoIds, mode \in FirstModes :
          RemoveVideoIdFromHistoryCall(vid, mode)
    \/ HistoryFirstNext
    \/ HistoryDelete

Spec == Init /\ [][Next]_vars

----------------------------------------------------------------------------
(* Several calls on one client, one after the other.                       *)

\* Follow-up fetches of a cursor when calls follow one another.
MaxFavFetches == 1

\* The call has ended and the caller makes the next one: the generator and
\* the results of the call are dropped, the client keeps _logged_in and
\* _favorites_playlist_id.
NextCall ==
    /\ \/ caller \notin {"none", "user"} /\ opState \in {"returned", "raised"}
       \/ caller = "user" /\ control = "consumer" /\ pc \in {"done", "error"}
    /\ caller' = "none"
    /\ kind' = "none"
    /\ only_first_page' = FALSE
    /\ pc' = "idle"
    /\ control' = "consumer"
    /\ pages' = <<>>
    /\ buf' = <<>>
    /\ idx' = 1
    /\ contList' = <<>>
    /\ contIdx' = 1
    /\ xsrf' = NoToken
    /\ emitted' = <<>>
    /\ fetches' = <<>>
    /\ err' = "none"
    /\ clear_button' = "unread"
    /\ posts' = <<>>
    /\ opState' = "idle"
    /\ opErr' = "none"
    /\ loads' = <<>>
    /\ call_ret' = NoResult
    /\ video_id' = "none"
    /\ opResult' = "none"
    /\ UNCHANGED <<logged_in, favorites_playlist_id, peer, active, call_arg>>

NextFav ==
    \/ /\ Next
       /\ Len(fetches') <= MaxFavFetches
    \/ NextCall

SpecFav == Init /\ [][NextFav]_vars

----------------------------------------------------------------------------
(* Two generators of one client, pulled in any interleaving.               *)

\* The kinds of the two generators.
PairKinds == {"history", "live_chat"}

\* The pages the server answers the two generators with: the renderer and
\* its entries are there, 'continuations' is absent, empty or holds one
\* descriptor.
PairPages(ps) ==
    {p \in ps : /\ p.hasRenderer
                /\ p.hasContents
                /\ p.contents # <<>>
                /\ Len(p.continuations) <= 1
                /\ p.xsrf_token # NoToken}

\* The locals and the position of the generator that is running.
CursorState ==
    [caller |-> caller, kind |-> kind, only_first_page |-> only_first_page,
     pc |-> pc, control |-> control, pages |-> pages, buf |-> buf,
     idx |-> idx, contList |-> contList, contIdx |-> contIdx, xsrf |-> xsrf,
     emitted |-> emitted, fetches |-> fetches, err |-> err]

\* A generator object just created by a call of a generator function.
NewCursor(k) ==
    [caller |-> "user", kind |-> k, only_first_page |-> FALSE, pc |-> "new",
     control |-> "consumer", pages |-> <<>>, buf |-> <<>>, idx |-> 1,
     contList |-> <<>>, contIdx |-> 1, xsrf |-> NoToken, emitted |-> <<>>,
     fetches |-> <<>>, err |-> "none"]

\* The client after two generator functions were called.
InitTwo ==
    /\ logged_in = TRUE
    /\ \E k1 \in PairKinds, k2 \in PairKinds :
         /\ kind = k1
         /\ peer = NewCursor(k2)
    /\ caller = "user"
    /\ only_first_page = FALSE
    /\ pc = "new"
    /\ control = "consumer"
    /\ pages = <<>>
    /\ buf = <<>>
    /\ idx = 1
    /\ contList = <<>>
    /\ contIdx = 1
    /\ xsrf = NoToken
    /\ emitted = <<>>
    /\ fetches = <<>>
    /\ err = "none"
    /\ clear_button = "unread"
    /\ posts = <<>>
    /\ opState = "idle"
    /\ opErr = "none"
    /\ loads = <<>>
    /\ active = 1
    /\ call_arg = <<>>
    /\ call_ret = NoResult
    /\ favorites_playlist_id = "None"
    /\ video_id = "none"
    /\ opResult = "none"

\* The consumer turns to the other generator: the locals of the one that
\* ran stay in its frame, and the other resumes from its own.
Switch ==
    /\ control = "consumer"
    /\ peer' = CursorState
    /\ active' = 3 - active
    /\ caller' = peer.caller
    /\ kind' = peer.kind
    /\ only_first_page' = peer.only_first_page
    /\ pc' = peer.pc
    /\ control' = peer.control
    /\ pages' = peer.pages
    /\ buf' = peer.buf
    /\ idx' = peer.idx
    /\ contList' = peer.contList
    /\ contIdx' = peer.contIdx
    /\ xsrf' = peer.xsrf
    /\ emitted' = peer.emitted
    /\ fetches' = peer.fetches
    /\ err' = peer.err
    /\ UNCHANGED <<logged_in, loads, call_arg, call_ret,
                   favorites_playlist_id, video_id, opResult>>
    /\ UNCHANGED opVars

PairStart ==
    /\ Start
    /\ pages' # <<>> => pages'[1] \in PairPages(InitialPages(kind))

PairFetch ==
    /\ Len(fetches) + Len(peer.fetches) < MaxPairFetches
    /\ Fetch
    /\ pages' # pages => Last(pages') \in PairPages(ResponsePages(kind))

NextTwo ==
    \/ Pull
    \/ PairStart
    \/ Yield
    \/ Finish
    \/ Raise
    \/ PairFetch
    \/ Switch

SpecTwo == InitTwo /\ [][NextTwo]_vars

----------------------------------------------------------------------------
(* ytcfg.py: find_ytcfg.                                                   *)

\* The text of a script element is a sequence of pieces:
\*   "c"    one character that is neither white space nor part of a call,
\*   "nl"   a line break,
\*   "set"  the text  ytcfg.set({ ,
\*   "objA", "objB"  the rest of a JSON object after its opening brace,
\*          "INNERTUBE_CONTEXT_CLIENT_VERSION":"2.0", ... } ,
\*   "bad"  "INNERTUBE_CONTEXT_CLIENT_VERSION": followed by text that is
\*          not JSON.
Pieces == {"c", "nl", "set", "objA", "objB", "bad"}

\* The pieces that hold '"INNERTUBE_CONTEXT_CLIENT_VERSION":'.
SignaturePieces == {"objA", "objB", "bad"}

ObjectPieces == {"objA", "objB"}

\* Pieces of all the script texts of one document together, and script
\* elements of one document.
MaxDocLen == 5

MaxScripts == 2

\* The script texts of a document laid end to end.
Texts == UNION {[1..n -> Pieces] : n \in 0..MaxDocLen}

\* The places where a text of n pieces is cut into k script texts, any of
\* which can be empty.
Cuts(n, k) ==
    {c \in [1..(k - 1) -> 0..n] : \A i \in 1..(k - 2) : c[i] <= c[i + 1]}

Split(text, c, k) ==
    LET at(i) == IF i = 0 THEN 0 ELSE IF i = k THEN Len(text) ELSE c[i]
    IN  [i \in 1..k |-> SubSeq(text, at(i - 1) + 1, at(i))]

\* The numbers of script elements a document with this text can have.
ScriptCounts(text) == (IF text = <<>> THEN 0 ELSE 1)..MaxScripts

\* '"INNERTUBE_CONTEXT_CLIENT_VERSION":' in x.text
contains_signature(text) == \E i \in 1..Len(text) : text[i] \in SignaturePieces

RECURSIVE lstrip(_)
lstrip(text) ==
    IF text # <<>> /\ Head(text) = "nl" THEN lstrip(Tail(text)) ELSE text

RECURSIVE rstrip(_)
rstrip(text) ==
    IF text # <<>> /\ Last(text) = "nl"
    THEN rstrip(SubSeq(text, 1, Len(text) - 1))
    ELSE text

\* str.strip()
strip(text) == rstrip(lstrip(text))

\* re.sub(r'.+ytcfg.set\(\{', '{', line) on one line: '.+' takes at least
\* one character and is greedy, so the match runs from the start of the
\* line to its last  ytcfg.set({  that is not at the start of the line.
sub_line(line) ==
    LET calls == {i \in 2..Len(line) : line[i] = "set"} IN
    IF calls = {} THEN line
    ELSE LET last == CHOOSE i \in calls : \A j \in calls : j <= i IN
         <<"{">> \o SubSeq(line, last + 1, Len(line))

RECURSIVE re_sub(_)
\* re.sub over the whole text: '.' does not match a line break, so every
\* line is rewritten on its own.
re_sub(text) ==
    LET breaks == {i \in 1..Len(text) : text[i] = "nl"} IN
    IF breaks = {} THEN sub_line(text)
    ELSE LET b == CHOOSE i \in breaks : \A j \in breaks : i <= j IN
         sub_line(SubSeq(text, 1, b - 1)) \o <<"nl">>
             \o re_sub(SubSeq(text, b + 1, Len(text)))

\* json.JSONDecoder().raw_decode(s)[0]: the JSON value at the very start of
\* s; what follows the value is ignored.  White space may follow the brace.
raw_decode(text) ==
    IF text = <<>> THEN Raised("JSONDecodeError")
    ELSE IF Head(text) = "{"
    THEN LET body == lstrip(Tail(text)) IN
         IF body # <<>> /\ Head(body) \in ObjectPieces
         THEN Blob(Head(body))
         ELSE Raised("JSONDecodeError")
    ELSE IF Head(text) \in SignaturePieces THEN StringValue
    ELSE Raised("JSONDecodeError")

\* The text is one find_ytcfg turns into a dict.
parses(text) ==
    contains_signature(text) /\ raw_decode(re_sub(strip(text))).kind = "blob"

\* candidates that passes over the scripts that do not parse when one that
\* parses follows.
candidates_skip_malformed(doc) ==
    IF SelectSeq(doc, parses) # <<>> THEN SelectSeq(doc, parses)
    ELSE SelectSeq(doc, contains_signature)

\* The script elements that pass the filter, in document order:
\* list(filter(lambda x: ... in x.text, soup.select('script'))).
candidates(doc) == SelectSeq(doc, contains_signature)

find_ytcfg(doc) ==
    IF candidates(doc) = <<>> THEN Raised("IndexError")
    ELSE raw_decode(re_sub(strip(candidates(doc)[1])))

InitYtcfg ==
    /\ \E text \in Texts : \E k \in ScriptCounts(text) :
           \E c \in Cuts(Len(text), k) : call_arg = Split(text, c, k)
    /\ call_ret = NoResult
    /\ logged_in = TRUE
    /\ caller = "none"
    /\ kind = "none"
    /\ only_first_page = FALSE
    /\ pc = "idle"
    /\ control = "consumer"
    /\ pages = <<>>
    /\ buf = <<>>
    /\ idx = 1
    /\ contList = <<>>
    /\ contIdx = 1
    /\ xsrf = NoToken
    /\ emitted = <<>>
    /\ fetches = <<>>
    /\ err = "none"
    /\ clear_button = "unread"
    /\ posts = <<>>
    /\ opState = "idle"
    /\ opErr = "none"
    /\ loads = <<>>
    /\ peer = NoCursor
    /\ active = 1
    /\ favorites_playlist_id = "None"
    /\ video_id = "none"
    /\ opResult = "none"

\* One call of find_ytcfg on the document.
FindYtcfg ==
    /\ call_ret = NoResult
    /\ call_ret' = find_ytcfg(call_arg)
    /\ UNCHANGED <<logged_in, caller, loads, peer, active, call_arg,
                   favorites_playlist_id, video_id, opResult>>
    /\ UNCHANGED cursorVars
    /\ UNCHANGED opVars

NextYtcfg == FindYtcfg

SpecYtcfg == InitYtcfg /\ [][NextYtcfg]_vars

----------------------------------------------------------------------------
(* ytcfg.py: ytcfg_headers.                                                *)

\* Calls of ytcfg_headers on one blob.
MaxHeaderCalls == 2

IntValue(n) == [type |-> "int", value |-> ToString(n)]

StrValue(t) == [type |-> "str", value |-> t]

\* The values a field of the parsed config holds: JSON numbers and strings.
FieldValues == {IntValue(1), IntValue(7), StrValue("1"), StrValue("x")}

\* The parsed configs that hold the five fields ytcfg_headers reads.
ConfigBlobs ==
    [INNERTUBE_CONTEXT_CLIENT_NAME : FieldValues,
     INNERTUBE_CONTEXT_CLIENT_VERSION : FieldValues,
     ID_TOKEN : FieldValues,
     PAGE_CL : FieldValues,
     VARIANTS_CHECKSUM : FieldValues]

\* str(x): a string is returned as it is, a number as its decimal text.
str(x) == [type |-> "str", value |-> x.value]

WATCH_LATER_URL == StrValue("https://www.youtube.com/playlist?list=WL")

\* ytcfg_headers that copies every field as it is.
ytcfg_headers_verbatim(ytcfg) ==
    [headers |->
        ("x-spf-previous" :> WATCH_LATER_URL)
        @@ ("x-spf-referer" :> WATCH_LATER_URL)
        @@ ("x-youtube-client-name" :> ytcfg.INNERTUBE_CONTEXT_CLIENT_NAME)
        @@ ("x-youtube-client-version" :>
               ytcfg.INNERTUBE_CONTEXT_CLIENT_VERSION)
        @@ ("x-youtube-identity-token" :> ytcfg.ID_TOKEN)
        @@ ("x-youtube-page-cl" :> ytcfg.PAGE_CL)
        @@ ("x-youtube-utc-offset" :> StrValue("-240"))
        @@ ("x-youtube-variants-checksum" :> ytcfg.VARIANTS_CHECKSUM),
     ytcfg |-> ytcfg]

\* ytcfg_headers: the dict it returns, and its argument once it returned.
ytcfg_headers(ytcfg) ==
    [headers |->
        ("x-spf-previous" :> WATCH_LATER_URL)
        @@ ("x-spf-referer" :> WATCH_LATER_URL)
        @@ ("x-youtube-client-name" :>
               str(ytcfg.INNERTUBE_CONTEXT_CLIENT_NAME))
        @@ ("x-youtube-client-version" :>
               ytcfg.INNERTUBE_CONTEXT_CLIENT_VERSION)
        @@ ("x-youtube-identity-token" :> ytcfg.ID_TOKEN)
        @@ ("x-youtube-page-cl" :> str(ytcfg.PAGE_CL))
        @@ ("x-youtube-utc-offset" :> StrValue("-240"))
        @@ ("x-youtube-variants-checksum" :> ytcfg.VARIANTS_CHECKSUM),
     ytcfg |-> ytcfg]

InitHeaders ==
    /\ call_arg \in ConfigBlobs
    /\ call_ret = <<>>
    /\ logged_in = TRUE
    /\ caller = "none"
    /\ kind = "none"
    /\ only_first_page = FALSE
    /\ pc = "idle"
    /\ control = "consumer"
    /\ pages = <<>>
    /\ buf = <<>>
    /\ idx = 1
    /\ contList = <<>>
    /\ contIdx = 1
    /\ xsrf = NoToken
    /\ emitted = <<>>
    /\ fetches = <<>>
    /\ err = "none"
    /\ clear_button = "unread"
    /\ posts = <<>>
    /\ opState = "idle"
    /\ opErr = "none"
    /\ loads = <<>>
    /\ peer = NoCursor
    /\ active = 1
    /\ favorites_playlist_id = "None"
    /\ video_id = "none"
    /\ opResult = "none"

\* One call of ytcfg_headers on the blob.
YtcfgHeaders ==
    /\ Len(call_ret) < MaxHeaderCalls
    /\ call_ret' = Append(call_ret, ytcfg_headers(call_arg).headers)
    /\ call_arg' = ytcfg_headers(call_arg).ytcfg
    /\ UNCHANGED <<logged_in, caller, loads, peer, active,
                   favorites_playlist_id, video_id, opResult>>
    /\ UNCHANGED cursorVars
    /\ UNCHANGED opVars

NextHeaders == YtcfgHeaders

SpecHeaders == InitHeaders /\ [][NextHeaders]_vars

----------------------------------------------------------------------------
(* _authorization_sapisidhash_header and _single_feedback_api_call.        *)

\* Cookies in the jar.
MaxCookies == 3

\* The names the loop accepts, and one it does not.
SapisidNames == {"SAPISID", "__Secure-3PAPISID"}

CookieNames == SapisidNames \cup {"SID"}

CookieValues == {"v1", "v2"}

Cookies == [name : CookieNames, value : CookieValues]

\* The jar in the order  for cookie in self._cj  visits it; a name occurs
\* once.
CookieJars ==
    {cj \in UNION {[1..n -> Cookies] : n \in 0..MaxCookies} :
        \A i \in 1..Len(cj), j \in 1..Len(cj) :
            cj[i].name = cj[j].name => i = j}

\* The loop: the value of the first cookie visited whose name is one of
\* the two, or None.
first_sapisid(cj) ==
    LET hits == {i \in 1..Len(cj) : cj[i].name \in SapisidNames} IN
    IF hits = {} THEN "None"
    ELSE cj[CHOOSE i \in hits : \A j \in hits : i <= j].value

\* 'SAPISIDHASH {now}_{sha1(now sapisid origin)}': the header as the
\* session id it was signed with.
SapisidHash(sapisid) == [kind |-> "SAPISIDHASH", blob |-> sapisid]

\* _authorization_sapisidhash_header.  assert raises AssertionError, and
\* is not compiled at all when the interpreter runs with -O: then None is
\* formatted into the signed text.
authorization_sapisidhash_header(cj, optimize) ==
    IF first_sapisid(cj) = "None" /\ ~optimize
    THEN Raised("AssertionError")
    ELSE SapisidHash(first_sapisid(cj))

InitSapisid ==
    /\ call_arg \in [cookies : CookieJars, optimize : BOOLEAN]
    /\ call_ret = NoResult
    /\ logged_in = TRUE
    /\ caller = "none"
    /\ kind = "none"
    /\ only_first_page = FALSE
    /\ pc = "idle"
    /\ control = "consumer"
    /\ pages = <<>>
    /\ buf = <<>>
    /\ idx = 1
    /\ contList = <<>>
    /\ contIdx = 1
    /\ xsrf = NoToken
    /\ emitted = <<>>
    /\ fetches = <<>>
    /\ err = "none"
    /\ clear_button = "unread"
    /\ posts = <<>>
    /\ opState = "idle"
    /\ opErr = "none"
    /\ loads = <<>>
    /\ peer = NoCursor
    /\ active = 1
    /\ favorites_playlist_id = "None"
    /\ video_id = "none"
    /\ opResult = "none"

\* _single_feedback_api_call: the headers are built, Authorization among
\* them, and then the request is posted.
SingleFeedbackApiCall ==
    /\ call_ret = NoResult
    /\ LET h == authorization_sapisidhash_header(call_arg.cookies,
                                                 call_arg.optimize) IN
       /\ call_ret' = h
       /\ posts' = IF h.kind = "SAPISIDHASH"
                   THEN Append(posts, Post("/youtubei/v1/feedback", h))
                   ELSE posts
    /\ UNCHANGED <<logged_in, caller, loads, peer, active, call_arg,
                   favorites_playlist_id, video_id, opResult>>
    /\ UNCHANGED cursorVars
    /\ UNCHANGED <<clear_button, opState, opErr>>

NextSapisid == SingleFeedbackApiCall

SpecSapisid == InitSapisid /\ [][NextSapisid]_vars

----------------------------------------------------------------------------
(* remove_set_video_id_from_playlist with its arguments, the Watch Later   *)
(* page it loads and the request it sends.                                 *)

\* Pieces of the script text of the Watch Later page.
MaxPageLen == 3

NoneValue == [type |-> "None", value |-> "None"]

DictValue(d) == [type |-> "dict", value |-> d]

EmptyDict == [k \in {} |-> StrValue("")]

\* Headers a caller passes.
CallerHeaders == ("x-caller" :> StrValue("h"))

\* The values of csn, headers and xsrf_token: the default None, an empty
\* value, a value.
CsnValues == {NoneValue, StrValue(""), StrValue("csn1")}

HeadersValues == {NoneValue, DictValue(EmptyDict), DictValue(CallerHeaders)}

TokenValues == {NoneValue, StrValue(""), StrValue("tok1")}

RemovalArgs ==
    [playlist_id : {"WL", "FL1"}, set_video_id : {"a", "b"}, csn : CsnValues,
     headers : HeadersValues, xsrf_token : TokenValues]

\* The truth value Python gives x in  not x : None, '' and {} are false.
truthy(x) ==
    CASE x.type = "None" -> FALSE
      [] x.type = "str" -> x.value # ""
      [] x.type = "dict" -> DOMAIN x.value # {}

\* The dict an object piece decodes to: objA holds every field read, objB
\* holds the fields of the headers and neither EVENT_ID nor XSRF_TOKEN.
ConfigOf(o) ==
    LET fields == [INNERTUBE_CONTEXT_CLIENT_NAME |-> IntValue(1),
                   INNERTUBE_CONTEXT_CLIENT_VERSION |-> StrValue("2.0"),
                   ID_TOKEN |-> StrValue("id"),
                   PAGE_CL |-> IntValue(7),
                   VARIANTS_CHECKSUM |-> StrValue("x")]
    IN  IF o = "objA"
        THEN fields @@ [EVENT_ID |-> StrValue("event1"),
                        XSRF_TOKEN |-> StrValue("page_tok")]
        ELSE fields

\* What _download_page_soup(WATCH_LATER_URL) gives: it fails, or a document
\* with one script element.
WatchLaterLoads ==
    {[ok |-> FALSE, text |-> <<>>]}
    \cup [ok : {TRUE}, text : UNION {[1..n -> Pieces] : n \in 0..MaxPageLen}]

\* What the POST gives: it fails, a response without 'code', a response
\* with a code.
PostAnswers == {"failed", "no_code"} \cup ResponseCodes

\* The data and the headers of the POST to service_ajax.
RemovalRequest(playlist_id, set_video_id, csn, session_token, headers) ==
    [name |-> "playlistEditEndpoint", playlistId |-> playlist_id,
     setVideoId |-> set_video_id, csn |-> csn,
     session_token |-> session_token, headers |-> headers]

RemovalResult(state, e, pageLoads, requests) ==
    [state |-> state, err |-> e, loads |-> pageLoads, posts |-> requests]

\* The POST and the test of data['code'].
removal_post(request, pageLoads, answer) ==
    IF answer = "failed"
    THEN RemovalResult("raised", "FetchError", pageLoads, <<request>>)
    ELSE IF answer = "no_code"
    THEN RemovalResult("raised", "KeyError", pageLoads, <<request>>)
    ELSE IF answer # "SUCCESS"
    THEN RemovalResult("raised", "UnexpectedError", pageLoads, <<request>>)
    ELSE RemovalResult("returned", "none", pageLoads, <<request>>)

\* remove_set_video_id_from_playlist, the whole method.
remove_set_video_id_from_playlist(li, a, load, answer) ==
    LET page == <<PageOf("remove_set_video_id_from_playlist")>>
        found == find_ytcfg(<<load.text>>)
    IN
    IF ~li THEN RemovalResult("raised", "AuthenticationError", <<>>, <<>>)
    ELSE IF truthy(a.headers) /\ truthy(a.csn) /\ truthy(a.xsrf_token)
    THEN removal_post(RemovalRequest(a.playlist_id, a.set_video_id, a.csn,
                                     a.xsrf_token, a.headers.value),
                      <<>>, answer)
    ELSE IF ~load.ok THEN RemovalResult("raised", "FetchError", page, <<>>)
    ELSE IF found = StringValue
    THEN RemovalResult("raised", "TypeError", page, <<>>)
    ELSE IF found.kind # "blob"
    THEN RemovalResult("raised", found.kind, page, <<>>)
    ELSE LET ytcfg == ConfigOf(found.blob)
             headers == ytcfg_headers(ytcfg).headers
         IN
         IF \/ ~truthy(a.csn) /\ "EVENT_ID" \notin DOMAIN ytcfg
            \/ ~truthy(a.xsrf_token) /\ "XSRF_TOKEN" \notin DOMAIN ytcfg
         THEN RemovalResult("raised", "KeyError", page, <<>>)
         ELSE removal_post(
                  RemovalRequest(a.playlist_id, a.set_video_id,
                                 IF truthy(a.csn) THEN a.csn
                                 ELSE ytcfg.EVENT_ID,
                                 IF truthy(a.xsrf_token) THEN a.xsrf_token
                                 ELSE ytcfg.XSRF_TOKEN,
                                 headers),
                  page, answer)

\* The client and the arguments of one call.
InitRemoval ==
    /\ call_arg \in RemovalArgs
    /\ call_ret = NoResult
    /\ logged_in \in BOOLEAN
    /\ caller = "none"
    /\ kind = "none"
    /\ only_first_page = FALSE
    /\ pc = "idle"
    /\ control = "consumer"
    /\ pages = <<>>
    /\ buf = <<>>
    /\ idx = 1
    /\ contList = <<>>
    /\ contIdx = 1
    /\ xsrf = NoToken
    /\ emitted = <<>>
    /\ fetches = <<>>
    /\ err = "none"
    /\ clear_button = "unread"
    /\ posts = <<>>
    /\ opState = "idle"
    /\ opErr = "none"
    /\ loads = <<>>
    /\ peer = NoCursor
    /\ active = 1
    /\ favorites_playlist_id = "None"
    /\ video_id = "none"
    /\ opResult = "none"

\* One call.  pages keeps the document the server gave, call_ret the
\* response to the POST.
RemoveSetVideoIdFromPlaylist(load, answer) ==
    /\ caller = "none"
    /\ caller' = "remove_set_video_id_from_playlist"
    /\ LET r == remove_set_video_id_from_playlist(logged_in, call_arg, load,
                                                  answer) IN
       /\ opState' = r.state
       /\ opErr' = r.err
       /\ loads' = r.loads
       /\ posts' = r.posts
       /\ pages' = IF r.loads # <<>> /\ load.ok THEN <<load.text>> ELSE <<>>
       /\ call_ret' = IF r.posts # <<>> /\ answer \in ResponseCodes
                      THEN Response(answer)
                      ELSE NoResult
    /\ UNCHANGED <<logged_in, clear_button, peer, active, call_arg,
                   favorites_playlist_id, video_id, opResult>>
    /\ UNCHANGED <<kind, only_first_page, pc, control, buf, idx, contList,
                   contIdx, xsrf, emitted, fetches, err>>

NextRemoval ==
    \E load \in WatchLaterLoads, answer \in PostAnswers :
        RemoveSetVideoIdFromPlaylist(load, answer)

SpecRemoval == InitRemoval /\ [][NextRemoval]_vars

----------------------------------------------------------------------------
(* Vocabulary of the properties.                                           *)

Range(s) == {s[i] : i \in 1..Len(s)}

\* The page has the list its entries are read from.
HasEntries(page) == page.hasRenderer /\ page.hasContents

\* The page carries exactly one next-continuation descriptor.
OneDescriptor(page) ==
    page.hasContinuations /\ Len(page.continuations) = 1

\* The page carries no descriptor: the list is missing, or empty.
NoContinuations(page) ==
    ~page.hasContinuations \/ page.continuations = <<>>

RECURSIVE LatestToken(_)
\* The token the server issued last in these pages.
LatestToken(ps) ==
    IF ps = <<>> THEN NoToken
    ELSE IF Last(ps).xsrf_token # NoToken THEN Last(ps).xsrf_token
    ELSE LatestToken(SubSeq(ps, 1, Len(ps) - 1))

\* A cursor has started: it has loaded its initial page.
Started == pc \notin {"idle", "new"} /\ pages # <<>>

\* The follow-up fetch j was issued after pages 1..j had been received:
\* the initial page and the responses of the fetches before it.
PagesBefore(j) == SubSeq(pages, 1, j)

----------------------------------------------------------------------------
(* C1 *)

\* The pages received so far are the head of an N-page presentation: each
\* has its entries list and each but the last carries one descriptor.
C1_Presented ==
    /\ Started
    /\ ~only_first_page
    /\ \A i \in 1..Len(pages) : HasEntries(pages[i])
    /\ \A i \in 1..(Len(pages) - 1) : OneDescriptor(pages[i])

\* C1: when the server presents N pages of which pages 1..N-1 carry one
\* descriptor each and page N carries none, the cursor yields the
\* concatenation of the N pages' entries in the server's order and issues
\* N-1 follow-up fetches.  As a state property: while the pages received
\* follow that pattern the cursor fails only if the transport does, it
\* does not stop before the page without descriptor, and having stopped
\* there it has emitted the concatenation with one fetch per later page.
C1_ConcatenationOfPages ==
    C1_Presented =>
        /\ OneDescriptor(Last(pages)) =>
              /\ pc # "done"
              /\ pc = "error" => err = "FetchError"
        /\ ~Last(pages).hasContinuations =>
              /\ pc # "error"
              /\ pc = "done" =>
                    /\ emitted = ConcatEntries(kind, pages)
                    /\ Len(fetches) = Len(pages) - 1

----------------------------------------------------------------------------
(* C2 *)

\* C2: in the cursors that send a token, once a response has supplied an
\* updated token every later follow-up fetch carries the token supplied
\* last.
C2_LatestTokenSent ==
    (Started /\ kind \in TokenKinds) =>
        \A j \in 1..Len(fetches) :
            (\E i \in 2..j : pages[i].xsrf_token # NoToken) =>
                fetches[j].session_token = LatestToken(PagesBefore(j))

----------------------------------------------------------------------------
(* C3 *)

\* C3: once a received page carries no continuation descriptor the cursor
\* issues no further fetch: every fetch was issued while all the pages
\* received before it carried a descriptor.
C3_NoFetchAfterLastPage ==
    Started =>
        \A j \in 1..Len(fetches) :
            \A i \in 1..j : ~NoContinuations(pages[i])

----------------------------------------------------------------------------
(* C4 *)

\* C4: a page whose descriptor list is missing or empty ends the sequence
\* normally: no error, no fetch after it, all entries emitted.
C4_MissingOrEmptyListEnds ==
    (Started /\ HasEntries(Last(pages)) /\ NoContinuations(Last(pages))) =>
        /\ pc # "error"
        /\ Len(fetches) = Len(pages) - 1
        /\ pc = "done" => emitted = ConcatEntries(kind, pages)

----------------------------------------------------------------------------
(* C5 *)

\* C5: an initial page without the entries list, or without the renderer
\* holding it, gives zero entries, no follow-up fetch and no error.
C5_AbsentContainerIsEmpty ==
    (Started /\ ~HasEntries(pages[1])) =>
        /\ pc # "error"
        /\ emitted = <<>>
        /\ fetches = <<>>

----------------------------------------------------------------------------
(* C6 *)

IsPrefix(s, t) == Len(s) <= Len(t) /\ s = SubSeq(t, 1, Len(s))

\* C6: with only_first_page the cursor issues no follow-up fetch, yields
\* entries of the initial page only, and when its page is exhausted it
\* returns having yielded exactly that page's entries, with or without a
\* descriptor on the page.
C6_OnlyFirstPage ==
    only_first_page =>
        /\ kind \in FirstPageKinds
        /\ fetches = <<>>
        /\ Len(pages) <= 1
        /\ pages # <<>> => IsPrefix(emitted, EntriesOf(kind, pages[1]))
        /\ (pc = "page" /\ PageExhausted(idx, buf)) => Step.act = "return"
        /\ pc = "done" => emitted = EntriesOf(kind, pages[1])

\* An only_first_page cursor returned after a first page that had entries
\* and a descriptor.
C6_Witness ==
    /\ only_first_page
    /\ pc = "done"
    /\ emitted = <<"b", "a">>
    /\ pages[1].continuations = <<D1, D2>>

----------------------------------------------------------------------------
(* C7 *)

\* C7: fetches are driven by the consumer's pulls only.  A generator that
\* was created and not pulled has loaded nothing; a page is loaded or
\* fetched only while a pull is pending and every entry of the pages
\* received has been delivered; a pull delivers at most one entry and then
\* control is back with the consumer, who may stop there.
C7_PullDriven ==
    /\ [](pc = "new" /\ control = "consumer" =>
             pages = <<>> /\ fetches = <<>> /\ emitted = <<>>)
    /\ [][(fetches' # fetches \/ pages' # pages) =>
             /\ control = "generator"
             /\ emitted = ConcatEntries(kind, pages)
             /\ emitted' = emitted]_vars
    /\ [][emitted' # emitted =>
             /\ control = "generator"
             /\ control' = "consumer"
             /\ Len(emitted') = Len(emitted) + 1
             /\ fetches' = fetches]_vars
    /\ [][(control = "consumer" /\ pc # "idle") =>
             /\ fetches' = fetches
             /\ pages' = pages
             /\ emitted' = emitted
             /\ pc' = pc]_vars

\* The consumer holds the first entry of the second page: one fetch has
\* been issued, and the consumer may stop here.
C7_Witness ==
    /\ caller = "user"
    /\ control = "consumer"
    /\ pc = "page"
    /\ Len(fetches) = 1
    /\ Len(pages) = 2
    /\ Len(emitted) = 3

----------------------------------------------------------------------------
(* C8 *)

\* C8: a watch-history response that carries a descriptor and no new token
\* does not make the cursor fail; the next fetch carries the latest token
\* issued before.
C8_TokenUpdateOptional ==
    (Started /\ kind = "history") =>
        \A i \in 2..Len(pages) :
            (/\ HasEntries(pages[i])
             /\ OneDescriptor(pages[i])
             /\ pages[i].xsrf_token = NoToken) =>
                /\ (i = Len(pages) /\ pc = "error") => err = "FetchError"
                /\ Len(fetches) >= i =>
                      fetches[i].session_token = LatestToken(PagesBefore(i))

----------------------------------------------------------------------------
(* C9 *)

\* C9: a follow-up fetch that fails is the cursor's last fetch; the cursor
\* ends with the transport's error at the consumer, and what it emitted is
\* the entries of the pages received before the failure.
C9_FetchErrorSurfaces ==
    \A j \in 1..Len(fetches) :
        ~fetches[j].ok =>
            /\ j = Len(fetches)
            /\ Len(pages) = j
            /\ pc = "error"
            /\ err = "FetchError"
            /\ control = "consumer"
            /\ emitted = ConcatEntries(kind, pages)
            /\ (caller = "clear_playlist" /\ opState # "enumerating") =>
                  opState = "raised" /\ opErr = "FetchError"

\* The second follow-up fetch failed after two pages with entries.
C9_Witness ==
    /\ Len(fetches) = 2
    /\ ~fetches[2].ok
    /\ fetches[1].ok
    /\ Len(emitted) = 4

----------------------------------------------------------------------------
(* C10 *)

\* A path the cursor reads is missing from one of its pages: the renderer,
\* or the entries list where no handler reads its absence as zero entries.
MissingPagePath ==
    \E i \in 1..Len(pages) :
        \/ ~pages[i].hasRenderer
        \/ ~pages[i].hasContents /\ ~(kind = "playlist" /\ i = 1)

----------------------------------------------------------------------------
(* C11: cursors share no continuation or token state.                      *)

\* What generator c sent and yielded follows from the pages c itself
\* received: the descriptor of its j-th fetch comes from its own pages up to
\* the j-th (history: from its j-th page), the token is the one of its own
\* page (history) or of its own initial page, and it yielded a prefix of the
\* entries of its own pages.
OwnRequests(c) ==
    /\ IsPrefix(c.emitted, ConcatEntries(c.kind, c.pages))
    /\ \A j \in 1..Len(c.fetches) :
         LET f == c.fetches[j]
             d == [continuation |-> f.continuation, itct |-> f.itct]
         IN /\ j <= Len(c.pages)
            /\ f.ctoken = f.continuation
            /\ IF c.kind = "history"
               THEN /\ c.pages[j].continuations # <<>>
                    /\ d = c.pages[j].continuations[1]
                    /\ f.session_token = c.pages[j].xsrf_token
               ELSE /\ \E i \in 1..j : d \in Range(c.pages[i].continuations)
                    /\ f.session_token = c.pages[1].xsrf_token

\* C11: two cursors of one client, pulled in any interleaving, each send
\* the descriptors and tokens of their own pages and yield the entries of
\* their own pages, as each would alone; advancing one changes nothing of
\* the other.
C11_CursorsIndependent ==
    /\ OwnRequests(CursorState)
    /\ OwnRequests(peer)

\* Both cursors have fetched a follow-up page, with different descriptors,
\* and both have yielded entries.
C11_Witness ==
    /\ Len(fetches) = 1
    /\ Len(peer.fetches) = 1
    /\ fetches[1].continuation # peer.fetches[1].continuation
    /\ emitted # <<>>
    /\ peer.emitted # <<>>

----------------------------------------------------------------------------
(* C12: find_ytcfg strips the call syntax.                                 *)

\* text is the call  ytcfg.set({ ... })  of object o, after n characters
\* on the same line and before any number of characters.
IsCallOf(text, o, n) ==
    /\ Len(text) >= n + 2
    /\ \A i \in 1..n : text[i] = "c"
    /\ text[n + 1] = "set"
    /\ text[n + 2] = o
    /\ \A i \in (n + 3)..Len(text) : text[i] = "c"

\* C12: for a document whose one script is the call applied to a JSON
\* object, find_ytcfg returns that object, whether characters precede the
\* call or not.
C12_CallSyntaxStripped ==
    \A o \in ObjectPieces, n \in 0..MaxDocLen :
        /\ call_ret # NoResult
        /\ Len(call_arg) = 1
        /\ IsCallOf(call_arg[1], o, n)
        => call_ret = Blob(o)

----------------------------------------------------------------------------
(* C13: the first script with the signature is authoritative.              *)

\* The first script of doc, in document order, that holds the signature.
FirstWithSignature(doc) ==
    doc[CHOOSE i \in 1..Len(doc) :
            /\ contains_signature(doc[i])
            /\ \A j \in 1..(i - 1) : ~contains_signature(doc[j])]

\* C13: when some script holds the signature, the result of find_ytcfg is
\* what the first such script alone decodes to, whatever the later scripts
\* are, also when the first is malformed; when no script holds the
\* signature, find_ytcfg raises and returns no blob.
C13_FirstScriptAuthoritative ==
    call_ret # NoResult =>
        IF \E i \in 1..Len(call_arg) : contains_signature(call_arg[i])
        THEN call_ret = raw_decode(re_sub(strip(FirstWithSignature(call_arg))))
        ELSE call_ret = Raised("IndexError")

\* find_ytcfg was called on a document whose first script with the
\* signature is malformed and whose second one is a well-formed call; it
\* raised.
C13_Witness ==
    /\ Len(call_arg) = 2
    /\ contains_signature(call_arg[1])
    /\ ~parses(call_arg[1])
    /\ parses(call_arg[2])
    /\ call_ret = Raised("JSONDecodeError")

----------------------------------------------------------------------------
(* C14: the headers ytcfg_headers builds.                                  *)

\* The five x-youtube-* keys each hold the blob field as it is.
FieldsVerbatim(h, ytcfg) ==
    /\ h["x-youtube-client-name"] = ytcfg.INNERTUBE_CONTEXT_CLIENT_NAME
    /\ h["x-youtube-client-version"] = ytcfg.INNERTUBE_CONTEXT_CLIENT_VERSION
    /\ h["x-youtube-identity-token"] = ytcfg.ID_TOKEN
    /\ h["x-youtube-page-cl"] = ytcfg.PAGE_CL
    /\ h["x-youtube-variants-checksum"] = ytcfg.VARIANTS_CHECKSUM

\* client-name and page-cl hold the text of the blob field, the other
\* three the field as it is.
FieldsAsText(h, ytcfg) ==
    /\ h["x-youtube-client-name"].type = "str"
    /\ h["x-youtube-client-name"].value =
           ytcfg.INNERTUBE_CONTEXT_CLIENT_NAME.value
    /\ h["x-youtube-client-version"] = ytcfg.INNERTUBE_CONTEXT_CLIENT_VERSION
    /\ h["x-youtube-identity-token"] = ytcfg.ID_TOKEN
    /\ h["x-youtube-page-cl"].type = "str"
    /\ h["x-youtube-page-cl"].value = ytcfg.PAGE_CL.value
    /\ h["x-youtube-variants-checksum"] = ytcfg.VARIANTS_CHECKSUM

RequiredKeys ==
    {"x-youtube-client-name", "x-youtube-client-version",
     "x-youtube-identity-token", "x-youtube-page-cl",
     "x-youtube-variants-checksum"}

\* C14 as stated: every header set returned holds the five keys, each with
\* the blob field copied verbatim; the blob is not modified; two calls on
\* the same blob return equal header sets.
C14_CopiedVerbatim ==
    /\ \A i \in 1..Len(call_ret) :
         /\ RequiredKeys \subseteq DOMAIN call_ret[i]
         /\ FieldsVerbatim(call_ret[i], call_arg)
         /\ call_ret[i] = call_ret[1]
    /\ ytcfg_headers(call_arg).ytcfg = call_arg

\* C14 amended: the same, with x-youtube-client-name and x-youtube-page-cl
\* holding the string form of the blob field (a number becomes its decimal
\* text) and the other three keys the field verbatim.
C14_CopiedAsText ==
    /\ \A i \in 1..Len(call_ret) :
         /\ RequiredKeys \subseteq DOMAIN call_ret[i]
         /\ FieldsAsText(call_ret[i], call_arg)
         /\ call_ret[i] = call_ret[1]
    /\ ytcfg_headers(call_arg).ytcfg = call_arg

\* ytcfg_headers was called twice on a blob whose client name and page-cl
\* are numbers.
C14_Witness ==
    /\ Len(call_ret) = 2
    /\ call_arg.INNERTUBE_CONTEXT_CLIENT_NAME.type = "int"
    /\ call_arg.PAGE_CL.type = "int"
    /\ call_ret[2]["x-youtube-page-cl"].type = "str"

----------------------------------------------------------------------------
(* C15: the session id the authorization header is signed with.            *)

HasCookie(cj, n) == \E i \in 1..Len(cj) : cj[i].name = n

ValueOf(cj, n) == cj[CHOOSE i \in 1..Len(cj) : cj[i].name = n].value

\* C15: the header is signed with the value of SAPISID when the jar holds
\* it, else with the value of __Secure-3PAPISID, whatever the order of the
\* jar; when the jar holds neither, signing fails and the API request is
\* not sent.
C15_FixedPreference ==
    call_ret # NoResult =>
        LET cj == call_arg.cookies IN
        IF HasCookie(cj, "SAPISID")
        THEN call_ret = SapisidHash(ValueOf(cj, "SAPISID"))
        ELSE IF HasCookie(cj, "__Secure-3PAPISID")
        THEN call_ret = SapisidHash(ValueOf(cj, "__Secure-3PAPISID"))
        ELSE call_ret = Raised("AssertionError") /\ posts = <<>>

----------------------------------------------------------------------------
(* C16: clear_playlist removes every entry.                                *)

\* The set-video ids the removal requests carried, in the order sent.
Removed == [i \in 1..Len(posts) |-> posts[i].arg]

\* C16: when clear_playlist has returned normally, one removal request was
\* sent for each entry of the pages received, in enumeration order; no
\* removal request is sent before the enumeration has completed; after a
\* removal answered with a code other than SUCCESS (UnexpectedError) no
\* further removal is sent.
C16_RemovesEveryEntry ==
    caller = "clear_playlist" =>
        /\ opState = "returned" =>
               Removed = ConcatEntries("playlist", pages)
        /\ posts # <<>> => pc = "done"
        /\ opErr = "UnexpectedError" =>
               /\ opState = "raised"
               /\ ~ENABLED ClearPlaylistRemove

----------------------------------------------------------------------------
(* C18: the continuation parameters of a fetch come from one descriptor.   *)

\* C18: in every follow-up fetch ctoken equals continuation, and the pair
\* (continuation, itct) is one nextContinuationData record of a page the
\* cursor received before the fetch; the continuation of one record is
\* never sent with the itct of another.
C18_OneDescriptorPerFetch ==
    \A j \in 1..Len(fetches) :
        /\ fetches[j].ctoken = fetches[j].continuation
        /\ \E i \in 1..j :
             /\ i <= Len(pages)
             /\ [continuation |-> fetches[j].continuation,
                 itct |-> fetches[j].itct] \in Range(pages[i].continuations)

\* A cursor has sent two fetches, from two different descriptors.
C18_Witness ==
    /\ Len(fetches) = 2
    /\ fetches[1].continuation # fetches[2].continuation
    /\ fetches[1].itct # fetches[2].itct

----------------------------------------------------------------------------
(* C20: remove_video_id_from_history sends at most one deletion.           *)

Ended == opState \in {"returned", "raised"}

NoMatch(ps, vid) ==
    \A i \in 1..Len(ps) : vid \notin Range(EntriesOf("history", ps[i]))

\* C20: a call of remove_video_id_from_history sends at most one deletion
\* request.  When no entry of any page carries the video id, the call pages
\* to the end and returns False without a deletion request (unless the
\* transport fails).  A deletion request is built from the first matching
\* entry, no page beyond the one holding that entry has been fetched, and
\* the call returns True exactly when the response code is SUCCESS.
C20_OneDeletionFromFirstMatch ==
    caller = "remove_video_id_from_history" /\ logged_in =>
        /\ Len(posts) <= 1
        /\ Ended /\ opErr # "FetchError" /\ NoMatch(pages, video_id) =>
               /\ opState = "returned"
               /\ opResult = "False"
               /\ posts = <<>>
               /\ pc = "done"
        /\ posts # <<>> =>
               /\ posts[1].arg = video_id
               /\ NoMatch(SubSeq(pages, 1, Len(pages) - 1), video_id)
        /\ posts # <<>> /\ opState = "returned" =>
               (opResult = "True" <=> call_ret = Response("SUCCESS"))

----------------------------------------------------------------------------
(* C17: nothing is requested while the client is not logged in.            *)

\* C17: while the client is not logged in no page is loaded, no follow-up
\* fetch is issued and nothing is posted; an account operation that was
\* called has raised AuthenticationError, and a cursor that was pulled has
\* raised AuthenticationError on that first pull.
C17_NoRequestBeforeLogin ==
    ~logged_in =>
        /\ loads = <<>>
        /\ pages = <<>>
        /\ fetches = <<>>
        /\ posts = <<>>
        /\ caller \notin {"none", "user"} =>
               /\ opState = "raised"
               /\ opErr = "AuthenticationError"
        /\ caller = "user" /\ pc # "new" /\ control = "consumer" =>
               /\ pc = "error"
               /\ err = "AuthenticationError"

\* remove_video_id_from_favorites, which has no login check of its own,
\* was called on a client that is not logged in.
C17_Witness ==
    /\ ~logged_in
    /\ caller = "remove_video_id_from_favorites"
    /\ opState = "raised"
    /\ opErr = "AuthenticationError"

----------------------------------------------------------------------------
(* C19: get_favorites_playlist_id caches the id.                           *)

\* The step is a call of get_favorites_playlist_id.
FavCall == caller = "none" /\ caller' = "get_favorites_playlist_id"

\* C19: once an id is cached, a call of get_favorites_playlist_id on the
\* logged-in client returns that id and requests nothing, and no step of
\* any operation changes or clears the cached id; a call that raises leaves
\* the cache as it was, and a call made while nothing is cached loads the
\* home page; a call that returns has cached the id it returns.
C19_IdCached ==
    [][/\ FavCall /\ logged_in /\ favorites_playlist_id # NoId =>
              /\ opState' = "returned"
              /\ opResult' = favorites_playlist_id
              /\ loads' = loads
              /\ posts' = posts
              /\ fetches' = fetches
       /\ FavCall /\ opState' = "raised" =>
              favorites_playlist_id' = favorites_playlist_id
       /\ FavCall /\ logged_in /\ favorites_playlist_id = NoId =>
              loads' = Append(loads, "home")
       /\ FavCall /\ opState' = "returned" =>
              /\ opResult' # NoId
              /\ favorites_playlist_id' = opResult'
       /\ favorites_playlist_id # NoId =>
              favorites_playlist_id' = favorites_playlist_id]_vars

\* A call of get_favorites_playlist_id has returned the cached id without
\* loading a page.
C19_Witness ==
    /\ caller = "get_favorites_playlist_id"
    /\ opState = "returned"
    /\ loads = <<>>
    /\ opResult = favorites_playlist_id
    /\ favorites_playlist_id \in PlaylistIds

----------------------------------------------------------------------------
(* C21: the requests of remove_set_video_id_from_playlist.                 *)

RemovalCalled == caller = "remove_set_video_id_from_playlist"

AllGiven ==
    truthy(call_arg.headers) /\ truthy(call_arg.csn)
        /\ truthy(call_arg.xsrf_token)

\* The fields of the page's config the call needs beside those of the
\* headers: EVENT_ID when no csn was supplied, XSRF_TOKEN when no token was.
FieldsNeeded ==
    (IF truthy(call_arg.csn) THEN {} ELSE {"EVENT_ID"})
    \cup (IF truthy(call_arg.xsrf_token) THEN {} ELSE {"XSRF_TOKEN"})

\* The Watch Later page was served and its script is the call
\* ytcfg.set({ ... })  of object o, after n characters on the same line.
ServedCallOf(o, n) ==
    /\ pages # <<>>
    /\ IsCallOf(pages[1], o, n)
    /\ FieldsNeeded \subseteq DOMAIN ConfigOf(o)

\* The one request sent carries the caller's csn and token where supplied,
\* those of config otherwise, and the headers derived from config.
SentFromPage(config) ==
    /\ Len(posts) = 1
    /\ posts[1].playlistId = call_arg.playlist_id
    /\ posts[1].setVideoId = call_arg.set_video_id
    /\ posts[1].csn = IF truthy(call_arg.csn) THEN call_arg.csn
                      ELSE config.EVENT_ID
    /\ posts[1].session_token =
           IF truthy(call_arg.xsrf_token) THEN call_arg.xsrf_token
           ELSE config.XSRF_TOKEN
    /\ posts[1].headers = ytcfg_headers(config).headers

\* C21: a logged-in call of remove_set_video_id_from_playlist with
\* non-empty headers, csn and xsrf_token loads no page and sends one
\* request, the removal POST, with exactly the caller's csn, token and
\* headers; with any of the three missing or empty it loads the Watch Later
\* page first and, the page holding the config call, sends the POST with
\* the caller's csn and token where supplied, the page's otherwise, and
\* headers derived from the page's config; a response code other than
\* SUCCESS raises UnexpectedError.
C21_RemovalRequests ==
    RemovalCalled /\ logged_in =>
        /\ AllGiven =>
              /\ loads = <<>>
              /\ Len(posts) = 1
              /\ posts[1].csn = call_arg.csn
              /\ posts[1].session_token = call_arg.xsrf_token
              /\ posts[1].headers = call_arg.headers.value
        /\ ~AllGiven =>
              /\ loads = <<"watch_later">>
              /\ \A o \in ObjectPieces, n \in 0..MaxPageLen :
                    ServedCallOf(o, n) => SentFromPage(ConfigOf(o))
        /\ call_ret.kind = "response" /\ call_ret.blob # "SUCCESS" =>
              opErr = "UnexpectedError"

====
